---- MODULE Spec2Model ----
(***************************************************************************)
(* Model of torch/ao/sparsity/sparsifier/base_sparsifier.py: one           *)
(* BaseSparsifier engine at a time (a fresh one is built by __init__)      *)
(* working on one host model whose layers outlive the engine.              *)
(*                                                                         *)
(* Encodings.  A Python string path is the sequence of its '.'-separated   *)
(* segments ('.b.c' is <<"", "b", "c">>, '' is <<"">>); None as a path is  *)
(* the empty sequence.  A module reference is the module's name, None is   *)
(* "None".  A tensor is a sequence of integers, an absent tensor is <<>>.  *)
(* A dict is a function over its keys.  self.config is written and read    *)
(* inside prepare only, so it is a local of that action.                   *)
(***************************************************************************)
EXTENDS Integers, Sequences, FiniteSets, TLC

VARIABLES
    tree,               \* the host model: per component, its named children in order
    self_defaults,      \* self.defaults
    model,              \* self.model: "unset" until prepare assigns it
    module_groups,      \* self.module_groups
    enable_mask_update, \* self.enable_mask_update
    mask,               \* per layer: the 'mask' buffer, <<>> when the layer has none
    weight,             \* per layer: the raw stored weight
    parametrized,       \* per layer: number of transforms attached to 'weight'
    lifecycle,          \* history: last lifecycle call that returned normally
    op,                 \* the last call made
    args,               \* its arguments
    err,                \* the exception it raised, "none" when it returned
    msg,                \* its message: the literal text and the values formatted into it
    ret,                \* the value it returned
    calls               \* the update_mask invocations it made, in order

vars == <<tree, self_defaults, model, module_groups, enable_mask_update, mask, weight, parametrized,
          lifecycle, op, args, err, msg, ret, calls>>

----------------------------------------------------------------------------
(* Bounds *)

MaxGroups == 2

----------------------------------------------------------------------------
(* The host model: root{a: Linear L1, b: Sequential S{c: Linear L2}} *)

None == "None"
NonePath == <<>>
NoTensor == <<>>

Modules == {"root", "S", "L1", "L2"}
Layers == {"L1", "L2"}

Kind == [m \in Modules |-> IF m \in Layers THEN "Linear" ELSE "Container"]

SUPPORTED_MODULES == {"Linear"}

HostTree ==
    [m \in Modules |->
        CASE m = "root" -> << <<"a", "L1">>, <<"b", "S">> >>
          [] m = "S"    -> << <<"c", "L2">> >>
          [] OTHER      -> << >>]

\* module.named_children()
named_children == tree

InitWeight == [l \in Layers |-> IF l = "L1" THEN <<3, 5>> ELSE <<2, 7>>]

\* the masks the policy under test computes for the layers
PolicyMasks == { [l \in Layers |-> IF l = "L1" THEN <<0, 1>> ELSE <<1, 0>>] }

defaults == [sparsity_level |-> 7, sparse_block_shape |-> 4]

----------------------------------------------------------------------------
(* Tensors *)

zeros(shape) == [i \in 1..shape |-> 0]

ones(shape) == [i \in 1..shape |-> 1]

Mul(a, b) == [i \in 1..Len(a) |-> a[i] * b[i]]

----------------------------------------------------------------------------
(* Dicts *)

\* d.update(e)
Update(d, e) == [k \in (DOMAIN d) \cup (DOMAIN e) |-> IF k \in DOMAIN e THEN e[k] ELSE d[k]]

\* dict(filter(lambda kv: kv[0] != key, d.items()))
Without(d, key) == [k \in (DOMAIN d) \ {key} |-> d[k]]

----------------------------------------------------------------------------
(* PathResolver *)

RECURSIVE module_to_fqn_from(_, _, _, _)
module_to_fqn_from(m, layer, prefix, i) ==
    IF i > Len(named_children[m]) THEN NonePath
    ELSE LET name == named_children[m][i][1]
             child == named_children[m][i][2]
             new_name == Append(prefix, name)
         IN  IF child = layer THEN new_name
             ELSE LET child_path == module_to_fqn_from(child, layer, new_name, 1)
                  IN  IF child_path # NonePath THEN child_path
                      ELSE module_to_fqn_from(m, layer, prefix, i + 1)

\* resolve_path(root, target): the dotted path with its leading separator, or None
_module_to_fqn(root, layer) == module_to_fqn_from(root, layer, <<"">>, 1)

Child(m, name) ==
    LET hits == {i \in 1..Len(named_children[m]) : named_children[m][i][1] = name}
    IN  IF hits = {} THEN None ELSE named_children[m][CHOOSE i \in hits : TRUE][2]

RECURSIVE Walk(_, _)
Walk(m, path) ==
    IF path = <<>> THEN m
    ELSE LET c == Child(m, Head(path))
         IN  IF c = None THEN None ELSE Walk(c, Tail(path))

\* resolve_module(root, path): strips a leading separator, '' is the root
_fqn_to_module(root, path) ==
    LET p == IF Len(path) > 1 /\ Head(path) = "" THEN Tail(path) ELSE path
    IN  IF p = <<"">> THEN root ELSE Walk(root, p)

----------------------------------------------------------------------------
(* Inputs *)

Bare(m) == [kind |-> "module", value |-> m]
Dict(d) == [kind |-> "dict", value |-> d]

Configs ==
    { << >>,
      << Bare("L1") >>,
      << Dict([module |-> "L2", sparsity_level |-> 5]) >>,
      << Bare("L1"), Dict([module |-> "L2", sparsity_level |-> 5]) >>,
      << Bare("L1"), Bare("L1") >> }

HandGroup(path) == [path |-> path, sparsity_level |-> 7, sparse_block_shape |-> 4]

\* state dicts written by hand, with a path the model does not have
HandDicts ==
    { << HandGroup(<<"zz">>) >>,
      << HandGroup(<<"zz">>), HandGroup(<<"a">>) >> }

NoArgs == [state_dict |-> << >>, strict |-> TRUE, config |-> << >>, config_is_none |-> FALSE]

NoMsg == [text |-> "", fields |-> << >>]

----------------------------------------------------------------------------

TypeOK ==
    /\ model \in {"unset", "root"}
    /\ enable_mask_update \in BOOLEAN
    /\ Len(module_groups) <= MaxGroups
    /\ \A l \in Layers : parametrized[l] \in 0..1
    /\ \A l \in Layers : mask[l] = NoTensor \/ Len(mask[l]) = Len(weight[l])
    /\ lifecycle \in {"Unprepared", "Prepared", "Squashed"}

Init ==
    /\ tree = HostTree
    /\ self_defaults = defaults
    /\ model = "unset"
    /\ module_groups = << >>
    /\ enable_mask_update = FALSE
    /\ mask = [l \in Layers |-> NoTensor]
    /\ weight = InitWeight
    /\ parametrized = [l \in Layers |-> 0]
    /\ lifecycle = "Unprepared"
    /\ op = "__init__"
    /\ args = NoArgs
    /\ err = "none"
    /\ msg = NoMsg
    /\ ret = << >>
    /\ calls = << >>

----------------------------------------------------------------------------
(* MaskTransform: the state of the layers, threaded through the loops *)

LayerState == [mask |-> mask, weight |-> weight, parametrized |-> parametrized, err |-> "none"]

Raise(st, e) == [st EXCEPT !.err = e]

\* module.register_buffer('mask', t)
register_buffer(st, module, t) == [st EXCEPT !.mask[module] = t]

\* parametrize.register_parametrization(module, 'weight', param(module.mask)):
\* attach; a weight that already carries a transform is refused
register_parametrization(st, module) ==
    IF st.parametrized[module] > 0 THEN Raise(st, "StateError")
    ELSE [st EXCEPT !.parametrized[module] = @ + 1]

\* reading module.weight: base * mask while the transform is attached
effective_weight(st, module) ==
    IF st.parametrized[module] > 0 /\ st.mask[module] # NoTensor
    THEN Mul(st.weight[module], st.mask[module])
    ELSE st.weight[module]

\* parametrize.remove_parametrizations(module, 'weight', leave_parametrized):
\* detach; with bake-in the raw weight becomes base * mask, without it the
\* raw weight stays as it was before the transform
remove_parametrizations(st, module, leave_parametrized) ==
    IF module = None THEN Raise(st, "AttributeError")
    ELSE [st EXCEPT !.weight[module] = IF leave_parametrized
                                       THEN effective_weight(st, module)
                                       ELSE st.weight[module],
                    !.parametrized[module] = 0]

\* delattr(module, 'mask')
delattr_mask(st, module) ==
    IF st.mask[module] = NoTensor THEN Raise(st, "AttributeError")
    ELSE [st EXCEPT !.mask[module] = NoTensor]

----------------------------------------------------------------------------
(* prepare *)

\* for name, child in module.named_children(): supported kinds go to the
\* config, the others onto the stack
RECURSIVE scan_children(_, _, _)
scan_children(children, i, sc) ==
    IF i > Len(children) THEN sc
    ELSE LET child == children[i][2]
         IN  IF Kind[child] \in SUPPORTED_MODULES
             THEN scan_children(children, i + 1, [sc EXCEPT !.config = Append(@, Bare(child))])
             ELSE scan_children(children, i + 1, [sc EXCEPT !.stack = Append(@, child)])

\* while stack: module = stack.pop() ...
RECURSIVE discover(_)
discover(sc) ==
    IF sc.stack = << >> THEN sc.config
    ELSE LET module == sc.stack[Len(sc.stack)]
             rest == SubSeq(sc.stack, 1, Len(sc.stack) - 1)
         IN  discover(scan_children(named_children[module], 1, [sc EXCEPT !.stack = rest]))

effective_config(root, config_is_none, config) ==
    IF config_is_none THEN discover([stack |-> <<root>>, config |-> << >>]) ELSE config

\* the loop turn with local_args = self.defaults, no copy
resolve_entry_sharing_defaults(root, rs, module_config) ==
    LET entry == IF module_config.kind = "module"
                 THEN [module |-> module_config.value]
                 ELSE module_config.value
        local_args == Update(rs.defaults, entry)
    IN  IF "module" \notin DOMAIN local_args
        THEN [rs EXCEPT !.err = "KeyError", !.defaults = local_args]
        ELSE LET module == local_args["module"]
                 fqn == _module_to_fqn(root, module)
                 module_path == IF fqn # NonePath /\ fqn # <<"">> /\ Len(fqn) > 1 /\ Head(fqn) = ""
                                THEN Tail(fqn) ELSE fqn
                 group == Update(local_args, [path |-> module_path])
             IN  [rs EXCEPT !.groups = Append(@, group), !.defaults = group]

\* one turn of the loop over self.config
resolve_entry(root, rs, module_config) ==
    LET entry == IF module_config.kind = "module"
                 THEN [module |-> module_config.value]
                 ELSE module_config.value
        local_args == Update(rs.defaults, entry)
    IN  IF "module" \notin DOMAIN local_args THEN [rs EXCEPT !.err = "KeyError"]
        ELSE LET module == local_args["module"]
                 fqn == _module_to_fqn(root, module)
                 module_path == IF fqn # NonePath /\ fqn # <<"">> /\ Len(fqn) > 1 /\ Head(fqn) = ""
                                THEN Tail(fqn) ELSE fqn
             IN  [rs EXCEPT !.groups = Append(@, Update(local_args, [path |-> module_path]))]

RECURSIVE resolve_from(_, _, _, _)
resolve_from(root, config, i, rs) ==
    IF i > Len(config) \/ rs.err # "none" THEN rs
    ELSE resolve_from(root, config, i + 1, resolve_entry(root, rs, config[i]))

\* the loop on an engine built with `defaults`
resolve(root, groups, config) ==
    resolve_from(root, config, 1, [groups |-> groups, err |-> "none", defaults |-> defaults])

\* one turn of the loop of _prepare
prepare_group(st, config) ==
    LET module == config["module"]
    IN  IF module = None THEN Raise(st, "AttributeError")
        ELSE LET st1 == IF st.mask[module] = NoTensor
                        THEN register_buffer(st, module, ones(Len(effective_weight(st, module))))
                        ELSE st
             IN  register_parametrization(st1, module)

RECURSIVE prepare_from(_, _, _)
prepare_from(groups, i, st) ==
    IF i > Len(groups) \/ st.err # "none" THEN st
    ELSE prepare_from(groups, i + 1, prepare_group(st, groups[i]))

_prepare(groups, st) == prepare_from(groups, 1, st)

prepare_body(config_is_none, config, rollback) ==
    LET cfg == effective_config("root", config_is_none, config)
        rs == resolve_from("root", cfg, 1,
                           [groups |-> module_groups, err |-> "none", defaults |-> self_defaults])
        st == IF rs.err = "none" THEN _prepare(rs.groups, LayerState) ELSE Raise(LayerState, rs.err)
    IN  /\ Len(module_groups) + Len(cfg) <= MaxGroups
        /\ model' = "root"
        /\ self_defaults' = rs.defaults
        /\ module_groups' = IF rollback /\ rs.err # "none" THEN module_groups ELSE rs.groups
        /\ mask' = st.mask
        /\ weight' = st.weight
        /\ parametrized' = st.parametrized
        /\ lifecycle' = IF st.err = "none" THEN "Prepared" ELSE lifecycle
        /\ op' = "prepare"
        /\ args' = [NoArgs EXCEPT !.config = config, !.config_is_none = config_is_none]
        /\ err' = st.err
        /\ msg' = NoMsg
        /\ ret' = << >>
        /\ calls' = << >>
        /\ UNCHANGED <<tree, enable_mask_update>>

prepare_rolling_back(config_is_none, config) == prepare_body(config_is_none, config, TRUE)

\* prepare(model, config); config_is_none stands for config=None
prepare(config_is_none, config) == prepare_body(config_is_none, config, FALSE)

----------------------------------------------------------------------------
(* squash_mask *)

\* one turn of the loop of squash_mask.  module._parameters and
\* module._buffers are dicts, so getattr(<dict>, 'mask', None) is None and
\* neither del runs; delattr removes the buffer
squash_group_without_bake_in(st, config) ==
    LET module == config["module"]
        st1 == remove_parametrizations(st, module, FALSE)
    IN  IF st1.err # "none" THEN st1 ELSE delattr_mask(st1, module)

squash_group_keeping_mask(st, config) ==
    remove_parametrizations(st, config["module"], TRUE)

squash_group(st, config) ==
    LET module == config["module"]
        st1 == remove_parametrizations(st, module, TRUE)
    IN  IF st1.err # "none" THEN st1 ELSE delattr_mask(st1, module)

RECURSIVE squash_from(_, _, _)
squash_from(groups, i, st) ==
    IF i > Len(groups) \/ st.err # "none" THEN st
    ELSE squash_from(groups, i + 1, squash_group(st, groups[i]))

squash_mask ==
    LET st == squash_from(module_groups, 1, LayerState)
    IN  /\ mask' = st.mask
        /\ weight' = st.weight
        /\ parametrized' = st.parametrized
        /\ lifecycle' = IF st.err = "none" THEN "Squashed" ELSE lifecycle
        /\ op' = "squash_mask"
        /\ args' = NoArgs
        /\ err' = st.err
        /\ msg' = NoMsg
        /\ ret' = << >>
        /\ calls' = << >>
        /\ UNCHANGED <<tree, self_defaults, model, module_groups, enable_mask_update>>

----------------------------------------------------------------------------
(* step and the policy hook *)

\* self.update_mask(module, **config): the invocation as the hook sees it
update_mask_call(config) == [layer |-> config["module"], kwargs |-> config]

step_calls_reversed(groups) ==
    [i \in 1..Len(groups) |-> update_mask_call(groups[Len(groups) + 1 - i])]

\* for config in self.module_groups: self.update_mask(module, **config)
step_calls(groups) == [i \in 1..Len(groups) |-> update_mask_call(groups[i])]

\* the hook is abstract: a policy writes a mask of its choice into the mask
\* storage of the layer it is handed, when the layer has one
update_mask(masks, layer, new_mask) ==
    IF layer # None /\ masks[layer] # NoTensor
    THEN [masks EXCEPT ![layer] = new_mask[layer]]
    ELSE masks

RECURSIVE apply_calls(_, _, _, _)
apply_calls(cs, i, masks, new_mask) ==
    IF i > Len(cs) THEN masks
    ELSE apply_calls(cs, i + 1, update_mask(masks, cs[i].layer, new_mask), new_mask)

step_body(new_mask, gate) ==
    LET cs == IF gate THEN step_calls(module_groups) ELSE << >>
    IN  /\ mask' = apply_calls(cs, 1, mask, new_mask)
        /\ op' = "step"
        /\ args' = NoArgs
        /\ err' = "none"
        /\ msg' = NoMsg
        /\ ret' = << >>
        /\ calls' = cs
        /\ UNCHANGED <<tree, self_defaults, model, module_groups, enable_mask_update, weight,
                       parametrized, lifecycle>>

step_ignoring_gate(new_mask) == step_body(new_mask, TRUE)

\* if not self.enable_mask_update: return
step(new_mask) == step_body(new_mask, enable_mask_update)

----------------------------------------------------------------------------
(* state_dict and load_state_dict *)

state_dict_groups(groups) == [i \in 1..Len(groups) |-> Without(groups[i], "module")]

state_dict ==
    /\ op' = "state_dict"
    /\ args' = NoArgs
    /\ err' = "none"
    /\ msg' = NoMsg
    /\ ret' = state_dict_groups(module_groups)
    /\ calls' = << >>
    /\ UNCHANGED <<tree, self_defaults, model, module_groups, enable_mask_update, mask, weight,
                   parametrized, lifecycle>>

\* f'Error loading group["path"] into the model': an f-string with no
\* replacement field
restore_error_message(path) ==
    [text |-> "Error loading group[\"path\"] into the model", fields |-> << >>]

\* group['module'] = layer: the group is an element of the local list, which
\* is the caller's own list when it was not copied
set_module(ls, group, layer) ==
    LET i == Len(ls.groups) + 1
        g == Update(group, [module |-> layer])
    IN  [ls EXCEPT !.groups = Append(@, g),
                   !.caller = IF ls.copied THEN @ ELSE [@ EXCEPT ![i] = g]]

load_group_dropping_unresolved(root, strict, ls, group) ==
    IF root = "unset" THEN [ls EXCEPT !.err = "AttributeError"]
    ELSE LET layer == _fqn_to_module(root, group["path"])
         IN  IF layer = None
             THEN IF strict
                  THEN [ls EXCEPT !.err = "RuntimeError", !.msg = restore_error_message(group["path"])]
                  ELSE ls
             ELSE set_module(ls, group, layer)

\* one turn of the loop of load_state_dict
load_group(root, strict, ls, group) ==
    IF root = "unset" THEN [ls EXCEPT !.err = "AttributeError"]
    ELSE LET layer == _fqn_to_module(root, group["path"])
         IN  IF strict /\ layer = None
             THEN [ls EXCEPT !.err = "RuntimeError", !.msg = restore_error_message(group["path"])]
             ELSE set_module(ls, group, layer)

RECURSIVE load_from(_, _, _, _, _)
load_from(root, strict, groups, i, ls) ==
    IF i > Len(groups) \/ ls.err # "none" THEN ls
    ELSE load_from(root, strict, groups, i + 1, load_group(root, strict, ls, groups[i]))

\* deepcopy says whether line 92 copies state_dict['module_groups'], wholesale
\* whether __setstate__ replaces the registry; args holds the caller's state
\* dict as it is when the call ends
load_state_dict_body(sd, strict, deepcopy, wholesale) ==
    LET ls == load_from(model, strict, sd, 1,
                        [groups |-> << >>, caller |-> sd, copied |-> deepcopy,
                         err |-> "none", msg |-> NoMsg])
    IN  /\ Len(sd) <= MaxGroups
        /\ module_groups' = IF ls.err # "none" THEN module_groups
                            ELSE IF wholesale THEN ls.groups
                            ELSE module_groups \o ls.groups
        /\ op' = "load_state_dict"
        /\ args' = [NoArgs EXCEPT !.state_dict = ls.caller, !.strict = strict]
        /\ err' = ls.err
        /\ msg' = ls.msg
        /\ ret' = << >>
        /\ calls' = << >>
        /\ UNCHANGED <<tree, self_defaults, model, enable_mask_update, mask, weight,
                       parametrized, lifecycle>>

load_state_dict_merging(sd, strict) == load_state_dict_body(sd, strict, TRUE, FALSE)

load_state_dict_without_copy(sd, strict) == load_state_dict_body(sd, strict, FALSE, TRUE)

load_state_dict(sd, strict) == load_state_dict_body(sd, strict, TRUE, TRUE)

\* what state_dict() returns on a fresh engine after prepare(model, config)
ExportedAfterPrepare(config) == state_dict_groups(resolve("root", << >>, config).groups)

RoundTripConfigs ==
    { << >>,
      << Bare("L1"), Dict([module |-> "L2", sparsity_level |-> 5]) >> }

ExportedDicts == {ExportedAfterPrepare(c) : c \in RoundTripConfigs}

\* the state dicts a caller may hold: the one state_dict() just returned,
\* one exported earlier by another engine, or a hand-written one
StateDicts == {ret} \cup ExportedDicts \cup HandDicts

----------------------------------------------------------------------------
(* construction and the gate *)

\* BaseSparsifier(defaults): a fresh engine; the layers keep their state
__init__ ==
    /\ self_defaults' = defaults
    /\ model' = "unset"
    /\ module_groups' = << >>
    /\ enable_mask_update' = FALSE
    /\ lifecycle' = "Unprepared"
    /\ op' = "__init__"
    /\ args' = NoArgs
    /\ err' = "none"
    /\ msg' = NoMsg
    /\ ret' = << >>
    /\ calls' = << >>
    /\ UNCHANGED <<tree, mask, weight, parametrized>>

\* sparsifier.enable_mask_update = value
set_enable_mask_update(value) ==
    /\ enable_mask_update' = value
    /\ op' = "set_enable_mask_update"
    /\ args' = NoArgs
    /\ err' = "none"
    /\ msg' = NoMsg
    /\ ret' = << >>
    /\ calls' = << >>
    /\ UNCHANGED <<tree, self_defaults, model, module_groups, mask, weight, parametrized, lifecycle>>

----------------------------------------------------------------------------

Next ==
    \/ __init__
    \/ \E value \in BOOLEAN : set_enable_mask_update(value)
    \/ \E config \in Configs : prepare(FALSE, config)
    \/ prepare(TRUE, << >>)
    \/ \E new_mask \in PolicyMasks : step(new_mask)
    \/ squash_mask
    \/ state_dict
    \/ \E sd \in StateDicts, strict \in BOOLEAN : load_state_dict(sd, strict)

Spec == Init /\ [][Next]_vars

----------------------------------------------------------------------------
(* prepare on any host model: the component tree and the masks the layers *)
(* already carry are drawn from bounded sets                              *)

\* the duplicate-free sequences over a set of named children
ChildLists(entries) ==
    {cs \in UNION {[1..n -> entries] : n \in 0..Cardinality(entries)} :
        \A i, j \in DOMAIN cs : i # j => cs[i] # cs[j]}

RootEntries == { <<"a", "L1">>, <<"b", "S">>, <<"d", "L2">> }

SEntries == { <<"c", "L2">>, <<"e", "L1">> }

\* acyclic trees over the components; a layer may be a child of both
\* containers, a component may be in no container
Trees ==
    {[m \in Modules |-> CASE m = "root" -> rc [] m = "S" -> sc [] OTHER -> << >>] :
        rc \in ChildLists(RootEntries), sc \in ChildLists(SEntries)}

\* the 'mask' buffers the layers carry before any engine touches them
InitialMasks ==
    { [l \in Layers |-> NoTensor],
      [l \in Layers |-> IF l = "L2" THEN <<1, 0>> ELSE NoTensor] }

HostConfigs ==
    Configs \cup { << Bare("L1"), Dict([sparsity_level |-> 5]) >> }

HostInit ==
    /\ tree \in Trees
    /\ self_defaults = defaults
    /\ model = "unset"
    /\ module_groups = << >>
    /\ enable_mask_update = FALSE
    /\ mask \in InitialMasks
    /\ weight = InitWeight
    /\ parametrized = [l \in Layers |-> 0]
    /\ lifecycle = "Unprepared"
    /\ op = "__init__"
    /\ args = NoArgs
    /\ err = "none"
    /\ msg = NoMsg
    /\ ret = << >>
    /\ calls = << >>

HostNext ==
    \/ \E config \in HostConfigs : prepare(FALSE, config)
    \/ prepare(TRUE, << >>)

HostSpec == HostInit /\ [][HostNext]_vars

----------------------------------------------------------------------------
(* Properties *)

GroupIndexes == DOMAIN module_groups

HasNullModule == \E i \in GroupIndexes : module_groups[i]["module"] = None

\* the dotted path of a module of the tree, as prepare stores it
PathOf(m) == LET fqn == _module_to_fqn("root", m)
             IN  IF Len(fqn) > 1 /\ Head(fqn) = "" THEN Tail(fqn) ELSE fqn

TreePaths == {PathOf(m) : m \in Modules \ {"root"}}

\* C1: a second prepare on the same engine with no squash_mask in between
\* (the first one having registered at least one group) fails with a
\* StateError, appends no group to the registry and attaches no second
\* transform to a layer that already has one.
C1_SecondPrepareRejected ==
    [][(op' = "prepare" /\ lifecycle = "Prepared" /\ module_groups # << >>)
         => /\ err' = "StateError"
            /\ module_groups' = module_groups
            /\ \A l \in Layers : parametrized[l] > 0 => parametrized'[l] = parametrized[l]]_vars

\* C2: in every reachable state no two groups of the registry refer to the
\* same live module.
C2_OneGroupPerModule ==
    \A i, j \in GroupIndexes :
        (i # j /\ module_groups[i]["module"] # None)
            => module_groups[i]["module"] # module_groups[j]["module"]

\* C3: load_state_dict on a fresh engine (prepare never called on it) of the
\* state dict another engine exported after prepare(model, config) succeeds
\* and yields that engine's registry: same paths in the same order, same
\* fields, the modules resolved to the same layers.
C3_RoundTripOnFreshEngine ==
    \A c \in RoundTripConfigs :
        (op = "load_state_dict" /\ model = "unset" /\ args.state_dict = ExportedAfterPrepare(c))
            => /\ err = "none"
               /\ module_groups = resolve("root", << >>, c).groups

\* C4: the error of a strict load_state_dict that meets a path the model
\* does not have carries that path in its message.
C4_RestoreErrorNamesPath ==
    (op = "load_state_dict" /\ err = "RuntimeError")
        => \E i \in DOMAIN args.state_dict :
              /\ args.state_dict[i]["path"] \notin TreePaths
              /\ \E k \in DOMAIN msg.fields : msg.fields[k] = args.state_dict[i]["path"]

\* C5: once the registry holds a group with a null module, prepare,
\* squash_mask and step (with mask updates enabled) fail with a StateError
\* and update_mask is never invoked with a null layer.
C5_NullModuleRejected ==
    /\ \A k \in DOMAIN calls : calls[k].layer # None
    /\ (HasNullModule /\ (op \in {"prepare", "squash_mask"} \/ (op = "step" /\ enable_mask_update)))
          => err = "StateError"

\* C6: a non-strict load_state_dict on an engine that has a model never
\* raises; the registry holds the loaded groups in their order, a group
\* whose path the model does not have with a null module, every other
\* group with the live module at its path.
C6_NonStrictLoadKeepsUnresolved ==
    (op = "load_state_dict" /\ ~args.strict /\ model # "unset")
        => /\ err = "none"
           /\ Len(module_groups) = Len(args.state_dict)
           /\ \A i \in GroupIndexes :
                 /\ "module" \in DOMAIN module_groups[i]
                 /\ Without(module_groups[i], "module") = args.state_dict[i]
                 /\ IF args.state_dict[i]["path"] \in TreePaths
                    THEN /\ module_groups[i]["module"] \in Modules
                         /\ PathOf(module_groups[i]["module"]) = args.state_dict[i]["path"]
                    ELSE module_groups[i]["module"] = None

C6_Witness ==
    /\ op = "load_state_dict" /\ ~args.strict /\ err = "none"
    /\ Len(module_groups) = 2
    /\ module_groups[1]["module"] = None
    /\ module_groups[2]["module"] = "L1"

\* C7: with the gate false, step invokes update_mask for no group and
\* leaves every mask, every weight, every transform and the registry as
\* they were.
C7_GateOffStepChangesNothing ==
    [][(op' = "step" /\ ~enable_mask_update)
         => /\ calls' = << >>
            /\ UNCHANGED <<mask, weight, parametrized, module_groups>>]_vars

C7_Witness ==
    /\ op = "step" /\ ~enable_mask_update /\ lifecycle = "Prepared"
    /\ Len(module_groups) = 2
    /\ \A i \in GroupIndexes : mask[module_groups[i]["module"]] # NoTensor

\* C8: with the gate true, step invokes update_mask once per group, in
\* registry order, with the group's layer and the group's fields.
C8_GateOnStepVisitsEachGroupInOrder ==
    (op = "step" /\ enable_mask_update)
        => /\ Len(calls) = Len(module_groups)
           /\ \A i \in GroupIndexes :
                 /\ calls[i].layer = module_groups[i]["module"]
                 /\ calls[i].kwargs = module_groups[i]

C8_Witness ==
    /\ op = "step" /\ enable_mask_update /\ lifecycle = "Prepared"
    /\ Len(calls) = 2
    /\ calls[1].layer = "L1" /\ calls[2].layer = "L2"
    /\ mask["L1"] = <<0, 1>> /\ mask["L2"] = <<1, 0>>

\* C9: after squash_mask and until the next prepare, step invokes
\* update_mask for no group.
C9_NoPolicyCallAfterSquash ==
    (lifecycle = "Squashed" /\ op = "step") => calls = << >>

\* C10: when squash_mask returns, every governed layer's raw weight is the
\* element-wise product of its raw weight and its mask as they were just
\* before the call, no transform is attached and the layer has no mask.
C10_SquashBakesIn ==
    [][(op' = "squash_mask" /\ err' = "none")
         => \A i \in GroupIndexes :
               LET l == module_groups[i]["module"]
               IN  /\ l \in Layers
                   /\ weight'[l] = Mul(weight[l], mask[l])
                   /\ parametrized'[l] = 0
                   /\ mask'[l] = NoTensor]_vars

C10_Witness ==
    /\ op = "squash_mask" /\ err = "none" /\ lifecycle = "Squashed"
    /\ Len(module_groups) = 2
    /\ weight["L1"] = <<0, 5>> /\ weight["L2"] = <<2, 0>>
    /\ \A l \in Layers : mask[l] = NoTensor /\ parametrized[l] = 0

\* the weight a read of module.weight returns
EffectiveWeight(l) == effective_weight(LayerState, l)

GovernedLayers == {module_groups[i]["module"] : i \in GroupIndexes} \cap Layers

\* C11 (as stated): when prepare returns normally (here on the reference
\* host tree), every governed layer's effective weight (base * mask) is the
\* weight it had before the call and its mask is all ones.
C11_PrepareIsNeutral ==
    [][(op' = "prepare" /\ err' = "none" /\ tree = HostTree)
         => \A l \in GovernedLayers' :
               /\ mask'[l] = ones(Len(weight[l]))
               /\ EffectiveWeight(l)' = EffectiveWeight(l)]_vars

\* C11 (amended): when prepare returns normally, every governed layer that
\* carried no mask before the call has an all-ones mask and an effective
\* weight equal to the weight it had before the call.
C11_PrepareIsNeutralForFreshMask ==
    [][(op' = "prepare" /\ err' = "none")
         => \A l \in GovernedLayers' :
               mask[l] = NoTensor
                   => /\ mask'[l] = ones(Len(weight[l]))
                      /\ parametrized'[l] = 1
                      /\ EffectiveWeight(l)' = EffectiveWeight(l)]_vars

C11_Witness ==
    /\ op = "prepare" /\ err = "none"
    /\ GovernedLayers = Layers
    /\ \A l \in Layers : mask[l] = <<1, 1>> /\ parametrized[l] = 1 /\ EffectiveWeight(l) = InitWeight[l]

\* C12: state_dict() returns one record per group, in registry order, with
\* no 'module' key and with the group's path, its mask and all its other
\* fields; the live groups keep their 'module'.
C12_StateDictCarriesPathMaskAndFields ==
    op = "state_dict"
        => /\ Len(ret) = Len(module_groups)
           /\ \A i \in GroupIndexes :
                 /\ "module" \in DOMAIN module_groups[i]
                 /\ "module" \notin DOMAIN ret[i]
                 /\ "path" \in DOMAIN ret[i]
                 /\ \A k \in (DOMAIN module_groups[i]) \ {"module"} :
                       k \in DOMAIN ret[i] /\ ret[i][k] = module_groups[i][k]
                 /\ "mask" \in DOMAIN ret[i]
                 /\ module_groups[i]["module"] \in Layers
                       => ret[i]["mask"] = mask[module_groups[i]["module"]]

\* C13: when load_state_dict returns normally the registry is exactly the
\* loaded groups, in their order; no group registered before remains.
C13_RestoreIsWholesale ==
    (op = "load_state_dict" /\ err = "none")
        => /\ Len(module_groups) = Len(args.state_dict)
           /\ \A i \in GroupIndexes : Without(module_groups[i], "module") = args.state_dict[i]

C13_Witness ==
    /\ op = "load_state_dict" /\ err = "none" /\ lifecycle = "Prepared"
    /\ parametrized["L2"] = 1
    /\ Len(module_groups) = 2
    /\ module_groups[1]["path"] = <<"zz">>
    /\ module_groups[2]["module"] = "L1"

\* C19: a load_state_dict that raises leaves the registry as it was, and
\* after any load_state_dict the caller's state dict has gained no 'module'
\* key.
C19_FailedLoadKeepsRegistryAndArgument ==
    [][op' = "load_state_dict"
         => /\ \A i \in DOMAIN args'.state_dict : "module" \notin DOMAIN args'.state_dict[i]
            /\ err' # "none" => module_groups' = module_groups]_vars

C19_Witness ==
    /\ op = "load_state_dict" /\ err = "RuntimeError" /\ args.strict
    /\ Len(args.state_dict) = 2
    /\ Len(module_groups) = 2
    /\ \A i \in GroupIndexes : module_groups[i]["module"] \in Layers

\* C20: on a host model whose layers carry no mask at the start, in every
\* reachable state a layer has mask storage exactly when a transform is
\* attached to its weight.
C20_MaskStorageIffTransform ==
    \A l \in Layers : (mask[l] # NoTensor) <=> (parametrized[l] >= 1)

C20_Witness ==
    /\ op = "squash_mask" /\ err = "AttributeError"
    /\ Len(module_groups) = 2
    /\ module_groups[1]["module"] = "L1" /\ module_groups[2]["module"] = "L1"
    /\ mask["L1"] = NoTensor /\ parametrized["L1"] = 0
    /\ mask["L2"] # NoTensor /\ parametrized["L2"] = 1

\* the fields a config entry brings to its group
EntryFields(module_config) ==
    IF module_config.kind = "module" THEN [module |-> module_config.value]
    ELSE module_config.value

LacksModule(module_config) == "module" \notin DOMAIN EntryFields(module_config)

Reachable(m) == _module_to_fqn("root", m) # NonePath

\* C14: every group that prepare appends for a config entry has every key of
\* defaults and of the entry, a key of both with the entry's value, a key of
\* defaults only with the default's value; a bare layer gets exactly the
\* defaults next to 'module' and 'path'; the engine's defaults do not change.
C14_DefaultsMerge ==
    [][(op' = "prepare" /\ ~args'.config_is_none)
         => /\ self_defaults' = self_defaults
            /\ self_defaults' = defaults
            /\ \A i \in (Len(module_groups) + 1)..Len(module_groups') :
                  LET module_config == args'.config[i - Len(module_groups)]
                      fields == EntryFields(module_config)
                      group == module_groups'[i]
                  IN  /\ (DOMAIN defaults \cup DOMAIN fields) \subseteq DOMAIN group
                      /\ \A k \in DOMAIN fields : group[k] = fields[k]
                      /\ \A k \in (DOMAIN defaults) \ (DOMAIN fields) : group[k] = defaults[k]
                      /\ module_config.kind = "module"
                            => /\ DOMAIN group = DOMAIN defaults \cup {"module", "path"}
                               /\ \A k \in DOMAIN defaults : group[k] = defaults[k]]_vars

C14_Witness ==
    /\ op = "prepare" /\ err = "none"
    /\ args.config = << Dict([module |-> "L2", sparsity_level |-> 5]) >>
    /\ Len(module_groups) = 2
    /\ module_groups[1]["module"] = "L1"
    /\ module_groups[1]["sparsity_level"] = 7 /\ module_groups[1]["sparse_block_shape"] = 4
    /\ module_groups[2]["module"] = "L2"
    /\ module_groups[2]["sparsity_level"] = 5 /\ module_groups[2]["sparse_block_shape"] = 4
    /\ self_defaults = defaults

\* C15: a prepare whose config has an entry without 'module', or an entry
\* whose module is not reachable from the model, fails with ConfigError, and
\* the registry holds no group with an empty or null path.
C15_BadEntryIsConfigError ==
    [][(/\ op' = "prepare" /\ ~args'.config_is_none
        /\ \E i \in DOMAIN args'.config :
              \/ LacksModule(args'.config[i])
              \/ ~Reachable(EntryFields(args'.config[i])["module"]))
         => /\ err' = "ConfigError"
            /\ \A i \in DOMAIN module_groups' :
                  module_groups'[i]["path"] \notin {NonePath, <<"">>}]_vars

\* C16: prepare(model, None) registers each reachable component of a
\* supported kind exactly once, also when it is a child of two parents.
C16_DiscoveryRegistersEachLayerOnce ==
    [][(op' = "prepare" /\ args'.config_is_none)
         => \A l \in Layers :
               Cardinality({i \in (Len(module_groups) + 1)..Len(module_groups') :
                               module_groups'[i]["module"] = l})
                 = IF Reachable(l) THEN 1 ELSE 0]_vars

\* C17: prepare(model, []) discovers like prepare(model, None): afterwards
\* the registry has a group for every reachable layer of a supported kind.
C17_EmptyConfigDiscovers ==
    (op = "prepare" /\ ~args.config_is_none /\ args.config = << >>)
        => \A l \in Layers :
              Reachable(l) => \E i \in GroupIndexes : module_groups[i]["module"] = l

\* the first entry of a config that has no 'module' key
FirstLackingModule(config) ==
    CHOOSE i \in DOMAIN config :
        LacksModule(config[i]) /\ \A j \in 1..(i - 1) : ~LacksModule(config[j])

\* C18: when prepare raises because an entry has no 'module' key, no layer
\* is modified, and the registry is the old one followed by the groups of
\* the entries that precede the failing one.
C18_NoRollbackOnMissingModule ==
    [][(op' = "prepare" /\ err' = "KeyError")
         => LET n == Len(module_groups)
                k == FirstLackingModule(args'.config) - 1
            IN  /\ UNCHANGED <<mask, weight, parametrized>>
                /\ Len(module_groups') = n + k
                /\ SubSeq(module_groups', 1, n) = module_groups
                /\ \A j \in 1..k :
                      module_groups'[n + j]["module"] = EntryFields(args'.config[j])["module"]]_vars

C18_Witness ==
    /\ op = "prepare" /\ err = "KeyError"
    /\ args.config = << Bare("L1"), Dict([sparsity_level |-> 5]) >>
    /\ Len(module_groups) = 1
    /\ module_groups[1]["module"] = "L1"
    /\ \A l \in Layers : parametrized[l] = 0
    /\ mask["L1"] = NoTensor

====
